---- MODULE Spec2Model ----
(***************************************************************************)
(* Model of collect_traffic_github.py: one collection run (main) fetches   *)
(* traffic flow and incidents, flattens the JSON into records, tags them   *)
(* with the run's timestamp and appends them to two SQLite tables.  An     *)
(* external scheduler re-invokes the script against the same database.     *)
(*                                                                         *)
(* Python values are modelled as follows.  A dict is a function whose      *)
(* domain is its set of keys, so  k in d  is  k \in DOMAIN d  and          *)
(* d.get(k, default) is Get(d, k, default).  A list is a sequence.  Scalar *)
(* leaves (numbers, text) are strings, the scalar None is the string       *)
(* "None" (which is also what str() prints for it).  An object reference   *)
(* that is None (a JSON body, a DataFrame) is the value None below.        *)
(***************************************************************************)
EXTENDS Integers, Sequences, FiniteSets, TLC

VARIABLES
    pc,              \* position of the run inside main / save_to_sqlite
    run,             \* number of the current invocation of the script
    clock,           \* wall clock read by datetime.now()
    provider,        \* what the two endpoints answer during this run
    timestamp,       \* main: timestamp = datetime.now()
    flow_resp,       \* fetch_traffic_flow: response
    incidents_resp,  \* fetch_traffic_incidents: response
    flow_data,       \* main: flow_data
    incidents_data,  \* main: incidents_data
    flow_df,         \* main: flow_df
    incidents_df,    \* main: incidents_df
    db,              \* the tables of traffic_historical.db
    conn,            \* save_to_sqlite: conn ("none", "open", "closed")
    closes,          \* number of conn.close() calls of this run
    exc,             \* exception raised and not handled ("none" if none)
    fault,           \* storage faults met by this run's writes
    wrote,           \* to_sql calls of this run that returned, in order
    pre              \* the tables as they were when the run started

vars == <<pc, run, clock, provider, timestamp, flow_resp, incidents_resp,
          flow_data, incidents_data, flow_df, incidents_df, db, conn,
          closes, exc, fault, wrote, pre>>

-----------------------------------------------------------------------------
(* Bounds of the model *)

\* invocations of the script against the same database
MaxRuns == 2
\* entities in one "results" list given to the parse functions alone
MaxEntities == 2
\* links in one shape given to the parse functions alone
MaxLinks == 1
\* clock reading (in hours since the epoch) when the first run starts
StartClock == 22
\* hours from the start of one run to the start of the next
RunInterval == 3

-----------------------------------------------------------------------------
(* Python values *)

None == [None |-> TRUE]
NoneValue == "None"
NaN == "NaN"
NULL == "NULL"
EmptyDict == [k \in {} |-> ""]

Get(d, k, default) == IF k \in DOMAIN d THEN d[k] ELSE default

\* truth value of "not x" for x None or a dict
Not(x) == x = None \/ DOMAIN x = {}

RECURSIVE SeqsUpTo(_, _)
SeqsUpTo(S, n) ==
    IF n = 0 THEN {<<>>}
    ELSE LET shorter == SeqsUpTo(S, n - 1)
         IN  shorter \cup {Append(s, e) : s \in {t \in shorter : Len(t) = n - 1}, e \in S}

\* str() of a list of (lng, lat) tuples, e.g. "[(101.68, 3.14), (None, 3.15)]"
RECURSIVE JoinTuples(_)
JoinTuples(coords) ==
    IF Len(coords) = 0 THEN ""
    ELSE "(" \o coords[1][1] \o ", " \o coords[1][2] \o ")"
         \o (IF Len(coords) > 1 THEN ", " \o JoinTuples(Tail(coords)) ELSE "")

str(coords) == "[" \o JoinTuples(coords) \o "]"

\* pd.DataFrame(records): the columns are the union of the records' keys and
\* a record lacking a column holds NaN there
DataFrame(records) ==
    LET columns == UNION {DOMAIN records[i] : i \in 1..Len(records)}
    IN  [columns |-> columns,
         rows |-> [i \in 1..Len(records) |->
                      [c \in columns |-> Get(records[i], c, NaN)]]]

len(df) == Len(df.rows)

Range(seq) == {seq[i] : i \in 1..Len(seq)}

-----------------------------------------------------------------------------
(* fetch_traffic_flow / fetch_traffic_incidents *)

\* requests.get either returns a response or raises (no route, DNS, reset)
Raised(name) == [raised |-> name]
Response(status_code, body) == [status_code |-> status_code, json |-> body]
NoResponse == [pending |-> TRUE]

IsRaise(r) == "raised" \in DOMAIN r

\* lines 29-33: the body on status 200, None otherwise
fetch_traffic_flow(response) ==
    IF response.status_code = 200 THEN response.json ELSE None

\* lines 46-49
fetch_traffic_incidents(response) ==
    IF response.status_code = 200 THEN response.json ELSE None

-----------------------------------------------------------------------------
(* parse_traffic_flow_to_dataframe / parse_incidents_to_dataframe *)

\* lines 73-77 and 103-107: the points of all links, in link order then point
\* order; a link without "points" contributes nothing
RECURSIVE Coords(_)
Coords(links) ==
    IF Len(links) = 0 THEN <<>>
    ELSE LET link == links[1]
             here == IF "points" \in DOMAIN link
                     THEN [j \in 1..Len(link.points) |->
                              <<Get(link.points[j], "lng", NoneValue),
                                Get(link.points[j], "lat", NoneValue)>>]
                     ELSE <<>>
         IN  here \o Coords(Tail(links))

\* lines 72 and 102: the condition under which a record gets a geometry
HasGeometry(location) ==
    "shape" \in DOMAIN location /\ "links" \in DOMAIN location.shape

\* a variant that leaves the geometry out when the links hold no point
WithGeometryOnlyForPoints(record, location) ==
    IF HasGeometry(location) /\ Len(Coords(location.shape.links)) > 0
    THEN record @@ [geometry |-> str(Coords(location.shape.links))]
    ELSE record

\* lines 71-78 and 102-108
WithGeometry(record, location) ==
    IF HasGeometry(location)
    THEN record @@ [geometry |-> str(Coords(location.shape.links))]
    ELSE record

\* lines 58-80: the record of one entity of results
FlowRecord(result) ==
    LET location == Get(result, "location", EmptyDict)
        current_flow == Get(result, "currentFlow", EmptyDict)
        record == [location_description |-> Get(location, "description", ""),
                   speed |-> Get(current_flow, "speed", NoneValue),
                   speed_limit |-> Get(current_flow, "speedLimit", NoneValue),
                   jam_factor |-> Get(current_flow, "jamFactor", NoneValue),
                   confidence |-> Get(current_flow, "confidence", NoneValue),
                   free_flow_speed |-> Get(current_flow, "freeFlowSpeed", NoneValue),
                   traversability |-> Get(current_flow, "traversability", "")]
    IN  WithGeometry(record, location)

\* lines 91-110
IncidentRecord(incident) ==
    LET location == Get(incident, "location", EmptyDict)
        incident_details == Get(incident, "incidentDetails", EmptyDict)
        record == [incident_id |-> Get(incident, "incidentId", ""),
                   type |-> Get(incident_details, "type", ""),
                   description |-> Get(Get(incident_details, "description", EmptyDict),
                                       "value", ""),
                   criticality |-> Get(incident_details, "criticality", ""),
                   start_time |-> Get(incident_details, "startTime", "")]
    IN  WithGeometry(record, location)

\* a variant of the loop that puts each new record first
RECURSIVE FlowRecordsNewestFirst(_, _)
FlowRecordsNewestFirst(results, records) ==
    IF Len(results) = 0 THEN records
    ELSE FlowRecordsNewestFirst(Tail(results), <<FlowRecord(Head(results))>> \o records)

\* lines 56-80: the loop over results; each pass appends one record
RECURSIVE FlowRecords(_, _)
FlowRecords(results, records) ==
    IF Len(results) = 0 THEN records
    ELSE FlowRecords(Tail(results), Append(records, FlowRecord(Head(results))))

\* lines 89-110
RECURSIVE IncidentRecords(_, _)
IncidentRecords(results, records) ==
    IF Len(results) = 0 THEN records
    ELSE IncidentRecords(Tail(results), Append(records, IncidentRecord(Head(results))))

\* lines 53-54 and 86-87: the guard that returns None
NoResults(data) == Not(data) \/ "results" \notin DOMAIN data

\* a variant that returns an empty frame where the code returns None
parse_flow_empty_for_absent(traffic_data) ==
    IF NoResults(traffic_data) THEN DataFrame(<<>>)
    ELSE DataFrame(FlowRecords(traffic_data.results, <<>>))

\* lines 51-82
parse_traffic_flow_to_dataframe(traffic_data) ==
    IF NoResults(traffic_data) THEN None
    ELSE DataFrame(FlowRecords(traffic_data.results, <<>>))

\* lines 84-112
parse_incidents_to_dataframe(incidents_json) ==
    IF NoResults(incidents_json) THEN None
    ELSE DataFrame(IncidentRecords(incidents_json.results, <<>>))

-----------------------------------------------------------------------------
(* main: the timestamp columns *)

EnrichmentColumns == {"timestamp", "hour", "day_of_week", "date"}

\* the clock counts hours since 1970-01-01 00:00, a Thursday
WeekdayNames ==
    <<"Thursday", "Friday", "Saturday", "Sunday", "Monday", "Tuesday", "Wednesday">>

\* timestamp.hour
hour(t) == t % 24
\* timestamp.date(), as days since the epoch
date(t) == t \div 24
\* timestamp.strftime('%A')
strftime_A(t) == WeekdayNames[(date(t) % 7) + 1]

\* lines 158-161 and 165-168: df[col] = value sets the column in every row
Enrich(df, t) ==
    LET fields == [timestamp |-> t, hour |-> hour(t),
                   day_of_week |-> strftime_A(t), date |-> date(t)]
    IN  [columns |-> df.columns \cup EnrichmentColumns,
         rows |-> [i \in 1..Len(df.rows) |-> fields @@ df.rows[i]]]

\* a variant that reads the clock again when the columns are added
EnrichInstantNow == clock

\* lines 158-161, 165-168: the instant the columns are derived from
EnrichInstant == timestamp

\* line 157
EnrichesFlow(df) == df # None

\* line 164
EnrichesIncidents(df) == df # None /\ len(df) > 0

-----------------------------------------------------------------------------
(* save_to_sqlite *)

NoTable == [exists |-> FALSE, columns |-> {}, rows |-> <<>>]

\* the value INSERT stores for one cell: NaN and None are stored as NULL
SqlValue(row, c) ==
    IF c \notin DOMAIN row THEN NULL
    ELSE IF c \in EnrichmentColumns THEN row[c]
    ELSE IF row[c] \in {NaN, NoneValue} THEN NULL
    ELSE row[c]

SqlRows(df, columns) ==
    [i \in 1..Len(df.rows) |-> [c \in columns |-> SqlValue(df.rows[i], c)]]

\* what the storage does to a write: nothing, an I/O error on the first
\* statement, or an I/O error while the rows are inserted
Faults == {"none", "io_first", "io_insert"}

\* a variant without a transaction: the rows inserted before an I/O error stay
to_sql_no_rollback(df, table, if_exists, flt) ==
    LET created == [exists |-> TRUE, columns |-> df.columns, rows |-> <<>>]
        base == IF table.exists /\ if_exists = "append" THEN table ELSE created
    IN  IF flt = "io_first" THEN [table |-> table, raised |-> "OperationalError"]
        ELSE IF ~(df.columns \subseteq base.columns)
        THEN [table |-> base, raised |-> "OperationalError"]
        ELSE [table |-> [base EXCEPT !.rows = base.rows \o SqlRows(df, base.columns)],
              raised |-> IF flt = "io_insert" THEN "OperationalError" ELSE "none"]

\* DataFrame.to_sql(name, conn, if_exists=..., index=False) on a sqlite3
\* connection.  'replace' drops an existing table; a missing table is created
\* with the frame's columns (DDL is committed at once); the rows are inserted
\* naming the frame's columns in one transaction, which is rolled back when
\* the INSERT fails, as it does when the table lacks one of those columns.
to_sql(df, table, if_exists, flt) ==
    LET created == [exists |-> TRUE, columns |-> df.columns, rows |-> <<>>]
        base == IF table.exists /\ if_exists = "append" THEN table ELSE created
    IN  IF flt = "io_first" THEN [table |-> table, raised |-> "OperationalError"]
        ELSE IF flt = "io_insert" \/ ~(df.columns \subseteq base.columns)
        THEN [table |-> base, raised |-> "OperationalError"]
        ELSE [table |-> [base EXCEPT !.rows = base.rows \o SqlRows(df, base.columns)],
              raised |-> "none"]

\* lines 119 and 128: the batches that are written
ShouldWrite(df) == df # None /\ len(df) > 0

\* lines 124 and 133
IfExists(table_exists) == IF ~table_exists THEN "replace" ELSE "append"

\* a variant without the finally clause: the exception leaves at once
OnRaiseNoFinally == "crashed"

\* lines 118, 137-138: where control goes when a statement of the try block raises
OnRaise == "save_finally"

Batch(name) == IF name = "traffic_flow" THEN flow_df ELSE incidents_df

-----------------------------------------------------------------------------
(* Inputs: what the provider can send *)

Point1 == [lng |-> "101.68", lat |-> "3.14"]
Point2 == [lng |-> "101.69", lat |-> "3.15"]

\* a link without points, with no points, with two points, with a point
\* that lacks its latitude
Links == {EmptyDict, [points |-> <<>>], [points |-> <<Point1, Point2>>],
          [points |-> <<[lng |-> "101.70"]>>]}

Shapes == {EmptyDict} \cup {[links |-> l] : l \in SeqsUpTo(Links, MaxLinks)}

Locations ==
    {EmptyDict, [description |-> "Jalan Ampang"]}
    \cup {[description |-> "Jalan Tun Razak", shape |-> s] : s \in Shapes}

FlowEntities ==
    {EmptyDict, [currentFlow |-> [speed |-> "45", jamFactor |-> "2.1"]]}
    \cup {[location |-> loc, currentFlow |-> [speed |-> "30", traversability |-> "open"]] :
             loc \in Locations}

IncidentEntities ==
    {EmptyDict, [incidentId |-> "INC-1"],
     [incidentId |-> "INC-2", incidentDetails |-> [type |-> "accident"]]}
    \cup {[incidentId |-> "INC-3", location |-> loc,
           incidentDetails |-> [type |-> "roadworks",
                                description |-> [value |-> "lane closed"]]] :
             loc \in Locations}

\* a body without a results collection
NoResultsBody == [sourceUpdated |-> "2024-01-01T00:00:00Z"]

Bodies(entities, n) ==
    {EmptyDict, NoResultsBody} \cup {[results |-> r] : r \in SeqsUpTo(entities, n)}

\* the entities of the pipeline runs: one without and one with a shape
FlowPlain == [currentFlow |-> [speed |-> "45", jamFactor |-> "2.1"]]
FlowShaped ==
    [location |-> [description |-> "Jalan Ampang",
                   shape |-> [links |-> <<[points |-> <<Point1, Point2>>]>>]],
     currentFlow |-> [speed |-> "30", jamFactor |-> "7.5"]]
IncidentPlain == [incidentId |-> "INC-1", incidentDetails |-> [type |-> "accident"]]
IncidentShaped ==
    [incidentId |-> "INC-3",
     location |-> [shape |-> [links |-> <<[points |-> <<Point1>>]>>]],
     incidentDetails |-> [type |-> "roadworks"]]

\* the results lists of the pipeline runs
PipeFlowResults == {<<>>, <<FlowPlain>>, <<FlowShaped>>, <<FlowPlain, FlowShaped>>}
PipeIncidentResults ==
    {<<>>, <<IncidentPlain>>, <<IncidentShaped>>, <<IncidentShaped, IncidentPlain>>}

\* what requests.get does for one request of a run
Answers(results) ==
    {Raised("ConnectionError"), Response(500, [title |-> "Internal Server Error"]),
     Response(200, EmptyDict), Response(200, NoResultsBody)}
    \cup {Response(200, [results |-> r]) : r \in results}

-----------------------------------------------------------------------------
(* main *)

Init ==
    /\ pc = "start"
    /\ run = 1
    /\ clock = StartClock
    /\ provider = [flow |-> NoResponse, incidents |-> NoResponse]
    /\ timestamp = 0
    /\ flow_resp = NoResponse
    /\ incidents_resp = NoResponse
    /\ flow_data = None
    /\ incidents_data = None
    /\ flow_df = None
    /\ incidents_df = None
    /\ db = [traffic_flow |-> NoTable, traffic_incidents |-> NoTable]
    /\ conn = "none"
    /\ closes = 0
    /\ exc = "none"
    /\ fault = "none"
    /\ wrote = <<>>
    /\ pre = [traffic_flow |-> NoTable, traffic_incidents |-> NoTable]

\* line 142: timestamp = datetime.now()
Start ==
    /\ pc = "start"
    /\ timestamp' = clock
    /\ provider' \in [flow : Answers(PipeFlowResults),
                      incidents : Answers(PipeIncidentResults)]
    /\ pre' = db
    /\ pc' = "fetch_flow"
    /\ UNCHANGED <<run, clock, flow_resp, incidents_resp, flow_data, incidents_data,
                   flow_df, incidents_df, db, conn, closes, exc, fault, wrote>>

\* line 149 -> lines 18-33; the request takes time; an exception of
\* requests.get is caught nowhere and ends main
FetchFlow ==
    /\ pc = "fetch_flow"
    /\ flow_resp' = provider.flow
    /\ clock' = clock + 1
    /\ IF IsRaise(provider.flow)
       THEN /\ exc' = provider.flow.raised
            /\ pc' = "crashed"
            /\ UNCHANGED flow_data
       ELSE /\ flow_data' = fetch_traffic_flow(provider.flow)
            /\ pc' = "fetch_incidents"
            /\ UNCHANGED exc
    /\ UNCHANGED <<run, provider, timestamp, incidents_resp, incidents_data,
                   flow_df, incidents_df, db, conn, closes, fault, wrote, pre>>

\* line 150 -> lines 35-49
FetchIncidents ==
    /\ pc = "fetch_incidents"
    /\ incidents_resp' = provider.incidents
    /\ clock' = clock + 1
    /\ IF IsRaise(provider.incidents)
       THEN /\ exc' = provider.incidents.raised
            /\ pc' = "crashed"
            /\ UNCHANGED incidents_data
       ELSE /\ incidents_data' = fetch_traffic_incidents(provider.incidents)
            /\ pc' = "parse_flow"
            /\ UNCHANGED exc
    /\ UNCHANGED <<run, provider, timestamp, flow_resp, flow_data,
                   flow_df, incidents_df, db, conn, closes, fault, wrote, pre>>

\* line 153
ParseFlow ==
    /\ pc = "parse_flow"
    /\ flow_df' = parse_traffic_flow_to_dataframe(flow_data)
    /\ pc' = "parse_incidents"
    /\ UNCHANGED <<run, clock, provider, timestamp, flow_resp, incidents_resp,
                   flow_data, incidents_data, incidents_df, db, conn, closes,
                   exc, fault, wrote, pre>>

\* line 154
ParseIncidents ==
    /\ pc = "parse_incidents"
    /\ incidents_df' = parse_incidents_to_dataframe(incidents_data)
    /\ pc' = "enrich_flow"
    /\ UNCHANGED <<run, clock, provider, timestamp, flow_resp, incidents_resp,
                   flow_data, incidents_data, flow_df, db, conn, closes,
                   exc, fault, wrote, pre>>

\* lines 157-162
EnrichFlow ==
    /\ pc = "enrich_flow"
    /\ flow_df' = IF EnrichesFlow(flow_df) THEN Enrich(flow_df, EnrichInstant)
                  ELSE flow_df
    /\ pc' = "enrich_incidents"
    /\ UNCHANGED <<run, clock, provider, timestamp, flow_resp, incidents_resp,
                   flow_data, incidents_data, incidents_df, db, conn, closes,
                   exc, fault, wrote, pre>>

\* lines 164-169
EnrichIncidents ==
    /\ pc = "enrich_incidents"
    /\ incidents_df' = IF EnrichesIncidents(incidents_df)
                       THEN Enrich(incidents_df, EnrichInstant)
                       ELSE incidents_df
    /\ pc' = "save_connect"
    /\ UNCHANGED <<run, clock, provider, timestamp, flow_resp, incidents_resp,
                   flow_data, incidents_data, flow_df, db, conn, closes,
                   exc, fault, wrote, pre>>

-----------------------------------------------------------------------------
(* main, line 172 -> save_to_sqlite *)

\* line 116: sqlite3.connect, outside the try block; when it raises there is
\* no connection
SaveConnect ==
    /\ pc = "save_connect"
    /\ \E opened \in BOOLEAN :
          IF opened
          THEN /\ conn' = "open"
               /\ pc' = "save_flow"
               /\ UNCHANGED <<exc, fault>>
          ELSE /\ exc' = "OperationalError"
               /\ fault' = "io"
               /\ pc' = "crashed"
               /\ UNCHANGED conn
    /\ UNCHANGED <<run, clock, provider, timestamp, flow_resp, incidents_resp,
                   flow_data, incidents_data, flow_df, incidents_df, db,
                   closes, wrote, pre>>

\* lines 119-126 for traffic_flow, lines 128-135 for traffic_incidents
WriteTable(name, next) ==
    LET df == Batch(name)
    IN  IF ShouldWrite(df)
        THEN \E flt \in Faults :
                LET r == to_sql(df, db[name], IfExists(db[name].exists), flt)
                IN  /\ db' = [db EXCEPT ![name] = r.table]
                    /\ fault' = IF flt = "none" THEN fault ELSE "io"
                    /\ IF r.raised # "none"
                       THEN /\ exc' = r.raised
                            /\ pc' = OnRaise
                            /\ UNCHANGED wrote
                       ELSE /\ pc' = next
                            /\ wrote' = Append(wrote, name)
                            /\ UNCHANGED exc
        ELSE /\ pc' = next
             /\ UNCHANGED <<db, fault, exc, wrote>>

\* lines 119-126
SaveFlow ==
    /\ pc = "save_flow"
    /\ WriteTable("traffic_flow", "save_incidents")
    /\ UNCHANGED <<run, clock, provider, timestamp, flow_resp, incidents_resp,
                   flow_data, incidents_data, flow_df, incidents_df, conn,
                   closes, pre>>

\* lines 128-135
SaveIncidents ==
    /\ pc = "save_incidents"
    /\ WriteTable("traffic_incidents", "save_finally")
    /\ UNCHANGED <<run, clock, provider, timestamp, flow_resp, incidents_resp,
                   flow_data, incidents_data, flow_df, incidents_df, conn,
                   closes, pre>>

\* lines 137-138: conn.close(), then the pending exception, if any, goes on
\* to the caller, which does not catch it
SaveFinally ==
    /\ pc = "save_finally"
    /\ conn' = "closed"
    /\ closes' = closes + 1
    /\ pc' = IF exc # "none" THEN "crashed" ELSE "complete"
    /\ UNCHANGED <<run, clock, provider, timestamp, flow_resp, incidents_resp,
                   flow_data, incidents_data, flow_df, incidents_df, db,
                   exc, fault, wrote, pre>>

\* line 173
Complete ==
    /\ pc = "complete"
    /\ pc' = "done"
    /\ UNCHANGED <<run, clock, provider, timestamp, flow_resp, incidents_resp,
                   flow_data, incidents_data, flow_df, incidents_df, db, conn,
                   closes, exc, fault, wrote, pre>>

\* lines 175-176: the scheduler starts the script again, later, on the same
\* database; nothing but the database survives
NextRun ==
    /\ pc \in {"done", "crashed"}
    /\ run < MaxRuns
    /\ run' = run + 1
    /\ clock' = timestamp + RunInterval
    /\ pc' = "start"
    /\ provider' = [flow |-> NoResponse, incidents |-> NoResponse]
    /\ timestamp' = 0
    /\ flow_resp' = NoResponse
    /\ incidents_resp' = NoResponse
    /\ flow_data' = None
    /\ incidents_data' = None
    /\ flow_df' = None
    /\ incidents_df' = None
    /\ conn' = "none"
    /\ closes' = 0
    /\ exc' = "none"
    /\ fault' = "none"
    /\ wrote' = <<>>
    /\ pre' = db
    /\ UNCHANGED db

\* lines 114-138
save_to_sqlite ==
    \/ SaveConnect
    \/ SaveFlow
    \/ SaveIncidents
    \/ SaveFinally

\* lines 140-173
main ==
    \/ Start
    \/ FetchFlow
    \/ FetchIncidents
    \/ ParseFlow
    \/ ParseIncidents
    \/ EnrichFlow
    \/ EnrichIncidents
    \/ save_to_sqlite
    \/ Complete

Next ==
    \/ main
    \/ NextRun

Spec == Init /\ [][Next]_vars

-----------------------------------------------------------------------------
(* The parse functions alone, on every body the provider can send *)

NormInit ==
    /\ pc = "parse_flow"
    /\ run = 1
    /\ clock = StartClock
    /\ provider = [flow |-> NoResponse, incidents |-> NoResponse]
    /\ timestamp = StartClock
    /\ flow_resp = NoResponse
    /\ incidents_resp = NoResponse
    /\ \/ /\ flow_data \in {None} \cup Bodies(FlowEntities, MaxEntities)
          /\ incidents_data \in {None, [results |-> <<>>]}
       \/ /\ flow_data \in {None, [results |-> <<>>]}
          /\ incidents_data \in {None} \cup Bodies(IncidentEntities, MaxEntities)
    /\ flow_df = None
    /\ incidents_df = None
    /\ db = [traffic_flow |-> NoTable, traffic_incidents |-> NoTable]
    /\ conn = "none"
    /\ closes = 0
    /\ exc = "none"
    /\ fault = "none"
    /\ wrote = <<>>
    /\ pre = [traffic_flow |-> NoTable, traffic_incidents |-> NoTable]

NormNext ==
    \/ ParseFlow
    \/ ParseIncidents

SpecNorm == NormInit /\ [][NormNext]_vars

-----------------------------------------------------------------------------
(* Vocabulary of the properties *)

TableNames == {"traffic_flow", "traffic_incidents"}

\* the run is over: main returned or an exception left it
Ended == pc \in {"done", "crashed"}

\* both parse calls of the run have returned
Parsed ==
    \/ pc \in {"enrich_flow", "enrich_incidents", "save_connect", "save_flow",
               "save_incidents", "save_finally", "complete", "done"}
    \/ pc = "crashed" /\ exc = "OperationalError"

\* save_to_sqlite was called and control has left it
Saved == pc \in {"complete", "done"} \/ (pc = "crashed" /\ conn = "closed")

\* the statement of save_to_sqlite that writes the table has been passed
Passed(name) ==
    \/ Saved
    \/ pc = "save_finally"
    \/ name = "traffic_flow" /\ pc = "save_incidents"

\* the write of the table was reached (an earlier write did not raise first)
Reached(name) ==
    /\ Passed(name)
    /\ name = "traffic_incidents" /\ ShouldWrite(flow_df) => "traffic_flow" \in Range(wrote)

\* a fetch that fails: a status other than 200 or a network error
FetchFails(answer) == IsRaise(answer) \/ answer.status_code # 200

\* a fetch that succeeds with k results
FetchGives(answer, k) ==
    /\ ~IsRaise(answer)
    /\ answer.status_code = 200
    /\ "results" \in DOMAIN answer.json
    /\ Len(answer.json.results) = k

\* the rows of the table that were there when the run started are still its
\* first rows, unchanged
Kept(name) ==
    /\ Len(pre[name].rows) <= Len(db[name].rows)
    /\ SubSeq(db[name].rows, 1, Len(pre[name].rows)) = pre[name].rows

\* the rows the run has added to the table
Added(name) == SubSeq(db[name].rows, Len(pre[name].rows) + 1, Len(db[name].rows))

\* number of rows the run has added to the table
Growth(name) == Len(db[name].rows) - Len(pre[name].rows)

\* when the run started the table was absent or held rows of earlier runs
\* (it was not left empty by a write that failed)
Plain(name) == pre[name].exists => Len(pre[name].rows) > 0

\* the body has a results collection
HasResults(data) == data # None /\ "results" \in DOMAIN data

\* the geometry of the i-th row of a frame, NaN when it has none
Geometry(df, i) == IF "geometry" \in df.columns THEN df.rows[i].geometry ELSE NaN

\* the location of an entity carries a shape with links
CarriesLinks(entity) ==
    /\ "location" \in DOMAIN entity
    /\ "shape" \in DOMAIN entity.location
    /\ "links" \in DOMAIN entity.location.shape

\* ... and at least one of the links holds a point
CarriesPoints(entity) ==
    /\ CarriesLinks(entity)
    /\ \E j \in 1..Len(entity.location.shape.links) :
          /\ "points" \in DOMAIN entity.location.shape.links[j]
          /\ Len(entity.location.shape.links[j].points) > 0

-----------------------------------------------------------------------------
(* C1 *)

\* C1: every call of save_to_sqlite with a non-absent, non-empty batch,
\* whether or not its records carry a geometry, creates the table or appends
\* to it: when no storage fault occurs (and the table was absent or held the
\* rows of earlier runs), the table exists afterwards, has exactly len(batch)
\* rows more than before, and its earlier rows are kept.
C1_AppendGrowsByBatchSize ==
    \A name \in TableNames :
        (Reached(name) /\ ShouldWrite(Batch(name)) /\ fault = "none" /\ Plain(name))
        => /\ db[name].exists
           /\ Growth(name) = len(Batch(name))
           /\ Kept(name)

\* the case that breaks it: a batch with a geometry column meets a table
\* that an earlier run created without one
C1_GeometryMeetsTableWithoutIt ==
    \E name \in TableNames :
        /\ Reached(name) /\ ShouldWrite(Batch(name)) /\ fault = "none"
        /\ pre[name].exists
        /\ "geometry" \in Batch(name).columns
        /\ "geometry" \notin pre[name].columns

-----------------------------------------------------------------------------
(* C2 *)

\* C2: when one fetch fails and the other succeeds with k > 0 results (and
\* the storage works), the run ends without an unhandled error, having
\* written nothing to the failed kind's table and exactly k rows to the other
C2_OtherKindStillPersisted ==
    (Ended /\ fault = "none")
    => /\ \A k \in 1..2 :
              (FetchFails(provider.flow) /\ FetchGives(provider.incidents, k))
              => /\ exc = "none"
                 /\ Growth("traffic_flow") = 0
                 /\ Growth("traffic_incidents") = k
       /\ \A k \in 1..2 :
              (FetchFails(provider.incidents) /\ FetchGives(provider.flow, k))
              => /\ exc = "none"
                 /\ Growth("traffic_incidents") = 0
                 /\ Growth("traffic_flow") = k

-----------------------------------------------------------------------------
(* C3 *)

\* C3: every failed fetch, a status other than 200 or a network error, gives
\* the caller None and lets no exception out
C3_FetchFailureIsNone ==
    /\ (flow_resp # NoResponse /\ FetchFails(flow_resp))
       => (flow_data = None /\ exc # "ConnectionError")
    /\ (incidents_resp # NoResponse /\ FetchFails(incidents_resp))
       => (incidents_data = None /\ exc # "ConnectionError")

-----------------------------------------------------------------------------
(* C7 *)

\* C7: an absent or empty batch leaves its table as it was, and the other
\* kind's non-empty batch is still written: its table grows by the batch size
C7_EmptyBatchSkippedOtherWritten ==
    (Saved /\ fault = "none" /\ \A name \in TableNames : Plain(name))
    => /\ (~ShouldWrite(incidents_df) /\ ShouldWrite(flow_df))
          => /\ db.traffic_incidents = pre.traffic_incidents
             /\ Growth("traffic_flow") = len(flow_df)
       /\ (~ShouldWrite(flow_df) /\ ShouldWrite(incidents_df))
          => /\ db.traffic_flow = pre.traffic_flow
             /\ Growth("traffic_incidents") = len(incidents_df)

-----------------------------------------------------------------------------
(* C4 *)

\* C4: for a body whose results hold N entities (N >= 0) each parse function
\* yields N records and the i-th record carries the values of the i-th
\* entity, defaults standing in for the fields the entity lacks
C4_OneRecordPerEntityInOrder ==
    /\ (pc # "parse_flow" /\ HasResults(flow_data))
       => /\ flow_df # None
          /\ len(flow_df) = Len(flow_data.results)
          /\ \A i \in 1..Len(flow_data.results) :
                LET e == flow_data.results[i]
                    row == flow_df.rows[i]
                IN  /\ row.location_description
                         = Get(Get(e, "location", EmptyDict), "description", "")
                    /\ row.speed = Get(Get(e, "currentFlow", EmptyDict), "speed", NoneValue)
                    /\ row.traversability
                         = Get(Get(e, "currentFlow", EmptyDict), "traversability", "")
    /\ (pc = "enrich_flow" /\ HasResults(incidents_data))
       => /\ incidents_df # None
          /\ len(incidents_df) = Len(incidents_data.results)
          /\ \A i \in 1..Len(incidents_data.results) :
                LET e == incidents_data.results[i]
                    row == incidents_df.rows[i]
                IN  /\ row.incident_id = Get(e, "incidentId", "")
                    /\ row.type = Get(Get(e, "incidentDetails", EmptyDict), "type", "")

\* two entities were parsed, the first lacking every nested field
C4_Witness ==
    /\ pc = "parse_incidents"
    /\ HasResults(flow_data)
    /\ Len(flow_data.results) = 2
    /\ flow_data.results[1] = EmptyDict
    /\ "location" \in DOMAIN flow_data.results[2]
    /\ len(flow_df) = 2

-----------------------------------------------------------------------------
(* C8 *)

\* C8 as stated: a record has a geometry only when the location carries a
\* shape with links that contain points, and the geometry is never the empty
\* serialization
C8_GeometryOnlyWithPoints ==
    /\ (pc # "parse_flow" /\ HasResults(flow_data))
       => \A i \in 1..Len(flow_data.results) :
             Geometry(flow_df, i) # NaN
             => /\ CarriesPoints(flow_data.results[i])
                /\ Geometry(flow_df, i) # "[]"
    /\ (pc = "enrich_flow" /\ HasResults(incidents_data))
       => \A i \in 1..Len(incidents_data.results) :
             Geometry(incidents_df, i) # NaN
             => /\ CarriesPoints(incidents_data.results[i])
                /\ Geometry(incidents_df, i) # "[]"

\* C8, amended: a record has a geometry exactly when the location carries a
\* shape with a links collection; the geometry is the empty serialization
\* "[]" exactly when those links hold no point
C8_GeometryIffLinks ==
    /\ (pc # "parse_flow" /\ HasResults(flow_data))
       => \A i \in 1..Len(flow_data.results) :
             /\ Geometry(flow_df, i) # NaN <=> CarriesLinks(flow_data.results[i])
             /\ Geometry(flow_df, i) = "[]"
                  <=> (CarriesLinks(flow_data.results[i])
                       /\ ~CarriesPoints(flow_data.results[i]))
    /\ (pc = "enrich_flow" /\ HasResults(incidents_data))
       => \A i \in 1..Len(incidents_data.results) :
             /\ Geometry(incidents_df, i) # NaN <=> CarriesLinks(incidents_data.results[i])
             /\ Geometry(incidents_df, i) = "[]"
                  <=> (CarriesLinks(incidents_data.results[i])
                       /\ ~CarriesPoints(incidents_data.results[i]))

\* a batch with one record whose links hold no point, one without a shape
\* and one with points
C8_Witness ==
    /\ pc = "enrich_flow"
    /\ HasResults(incidents_data)
    /\ Len(incidents_data.results) = 2
    /\ Geometry(incidents_df, 1) = "[]"
    /\ Geometry(incidents_df, 2) = NaN
    /\ "shape" \notin DOMAIN Get(incidents_data.results[2], "location", EmptyDict)

-----------------------------------------------------------------------------
(* C5 *)

\* C5: each parse function returns None exactly when its input is None or
\* has no results collection, and an empty frame (not None) when results is
\* there with no entity; downstream a body without results is treated like
\* a failed fetch: nothing of that kind is written
C5_AbsentIsNotEmpty ==
    /\ Parsed
       => /\ flow_df = None <=> ~HasResults(flow_data)
          /\ incidents_df = None <=> ~HasResults(incidents_data)
          /\ (HasResults(flow_data) /\ Len(flow_data.results) = 0)
             => (flow_df # None /\ len(flow_df) = 0)
          /\ (HasResults(incidents_data) /\ Len(incidents_data.results) = 0)
             => (incidents_df # None /\ len(incidents_df) = 0)
    /\ Saved
       => /\ ~HasResults(flow_data)
             => (db.traffic_flow = pre.traffic_flow /\ "traffic_flow" \notin Range(wrote))
          /\ ~HasResults(incidents_data)
             => (db.traffic_incidents = pre.traffic_incidents
                 /\ "traffic_incidents" \notin Range(wrote))

\* a run whose flow body had no results collection and whose incidents body
\* had an empty one
C5_Witness ==
    /\ pc = "done"
    /\ flow_resp = Response(200, NoResultsBody)
    /\ flow_df = None
    /\ HasResults(incidents_data)
    /\ Len(incidents_data.results) = 0
    /\ incidents_df # None

-----------------------------------------------------------------------------
(* C6 *)

\* C6: the run reads the clock once, before it issues a fetch, and every row
\* it stores, in either table, carries that instant as its timestamp and the
\* hour, weekday and date of that instant
C6_OneCaptureInstant ==
    /\ pc = "fetch_flow"
       => (timestamp = clock /\ flow_resp = NoResponse /\ incidents_resp = NoResponse)
    /\ (flow_resp # NoResponse \/ incidents_resp # NoResponse) => timestamp < clock
    /\ \A name \in TableNames :
          \A i \in 1..Len(Added(name)) :
             LET row == Added(name)[i]
             IN  /\ row.timestamp = timestamp
                 /\ row.hour = timestamp % 24
                 /\ row.date = timestamp \div 24
                 /\ row.day_of_week = WeekdayNames[((timestamp \div 24) % 7) + 1]

\* a run that stored rows of both kinds, and ended on a later day than the
\* one it started on
C6_Witness ==
    /\ pc = "done"
    /\ Growth("traffic_flow") > 0
    /\ Growth("traffic_incidents") > 0
    /\ clock \div 24 # timestamp \div 24

-----------------------------------------------------------------------------
(* C9 *)

\* C9: save_to_sqlite writes traffic_flow before traffic_incidents, each
\* write on its own: when the incidents write raises after the flow write
\* returned, the flow rows of the run stay stored, no incident row of the run
\* is stored, and the exception reaches the caller
C9_FlowCommittedBeforeIncidents ==
    /\ wrote \in {<<>>, <<"traffic_flow">>, <<"traffic_incidents">>,
                  <<"traffic_flow", "traffic_incidents">>}
    /\ pc = "save_flow" => db.traffic_incidents = pre.traffic_incidents
    /\ exc # "none" => pc \in {"save_finally", "crashed"}
    /\ (exc = "OperationalError" /\ wrote = <<"traffic_flow">>)
       => /\ Kept("traffic_flow")
          /\ Added("traffic_flow") = SqlRows(flow_df, db.traffic_flow.columns)
          /\ Growth("traffic_flow") = len(flow_df)
          /\ Kept("traffic_incidents")
          /\ Growth("traffic_incidents") = 0

\* the incidents write raised after the flow write returned
C9_Witness ==
    /\ pc = "crashed"
    /\ exc = "OperationalError"
    /\ wrote = <<"traffic_flow">>
    /\ ShouldWrite(incidents_df)
    /\ Growth("traffic_flow") > 0

-----------------------------------------------------------------------------
(* C10 *)

\* C10: once sqlite3.connect has returned, every way out of save_to_sqlite
\* closes the connection exactly once before control is back in main
C10_ConnectionClosedOnce ==
    /\ closes <= 1
    /\ conn = "open" => pc \in {"save_flow", "save_incidents", "save_finally"}
    /\ conn = "closed" <=> closes = 1
    /\ (pc \in {"complete", "done"}) => (conn = "closed" /\ closes = 1)
    /\ (pc = "crashed" /\ wrote # <<>>) => (conn = "closed" /\ closes = 1)
    /\ (pc = "crashed" /\ exc = "OperationalError" /\ conn # "none")
       => (conn = "closed" /\ closes = 1)

\* the flow write raised and the connection was closed
C10_Witness ==
    /\ pc = "crashed"
    /\ exc = "OperationalError"
    /\ ShouldWrite(flow_df)
    /\ wrote = <<>>
    /\ conn = "closed"
    /\ closes = 1

====
